---- MODULE Spec2Model ----
(***************************************************************************)
(* Model of libcloud/common/linode.py: the Linode API response parser      *)
(* (LinodeResponse) and the connection's default request parameters        *)
(* (LinodeConnection.add_default_params).                                  *)
(*                                                                         *)
(* A response body is the sequence of lexical tokens of its text.  The     *)
(* JSON decoder is modelled by a recursive-descent parser over the tokens, *)
(* Python's `in`, `[]` and iteration by what they do on each type of       *)
(* decoded value.  Decoded values are restricted to null, integers,        *)
(* strings, lists and objects (no floats or booleans).  status, headers    *)
(* and error of the response are captured by the constructor and never     *)
(* read again; they are left out.                                          *)
(***************************************************************************)
EXTENDS Integers, Sequences, FiniteSets, TLC

VARIABLES body, pc, js, ret, errs, i, objects, errors, raised,
          params, key, returned, calls

respVars == <<body, pc, js, ret, errs, i, objects, errors, raised>>
connVars == <<params, key, returned, calls>>
vars == <<body, pc, js, ret, errs, i, objects, errors, raised,
          params, key, returned, calls>>

(* Bounds of the model. *)
MaxItems == 2
MaxErrs == 2
MaxCalls == 2

(* Program constants. *)
InvalidCode == 255
CredsCode == 4

(***************************************************************************)
(* Decoded JSON values (what json.loads returns), one record shape for     *)
(* every type: k is the type, n an integer's value, s a string's value,    *)
(* a a list's elements, d an object's mapping from keys to values.         *)
(***************************************************************************)
JNull == [k |-> "null", n |-> 0, s |-> "", a |-> <<>>, d |-> <<>>]
JInt(x) == [k |-> "int", n |-> x, s |-> "", a |-> <<>>, d |-> <<>>]
JStr(x) == [k |-> "str", n |-> 0, s |-> x, a |-> <<>>, d |-> <<>>]
JList(q) == [k |-> "list", n |-> 0, s |-> "", a |-> q, d |-> <<>>]
JDict(f) == [k |-> "dict", n |-> 0, s |-> "", a |-> <<>>, d |-> f]
(* An attribute that has not been assigned. *)
Unset == [k |-> "unset", n |-> 0, s |-> "", a |-> <<>>, d |-> <<>>]

(* The characters of the strings of more than one character. *)
StrChars ==
  ("DATA" :> <<"D", "A", "T", "A">>)
  @@ ("ERRORARRAY" :> <<"E", "R", "R", "O", "R", "A", "R", "R", "A", "Y">>)
  @@ ("ACTION" :> <<"A", "C", "T", "I", "O", "N">>)
  @@ ("ERRORCODE" :> <<"E", "R", "R", "O", "R", "C", "O", "D", "E">>)
  @@ ("ERRORMESSAGE" :>
        <<"E", "R", "R", "O", "R", "M", "E", "S", "S", "A", "G", "E">>)
  @@ ("DATA,ERRORARRAY,ACTION" :>
        <<"D", "A", "T", "A", ",",
          "E", "R", "R", "O", "R", "A", "R", "R", "A", "Y", ",",
          "A", "C", "T", "I", "O", "N">>)
  @@ ("ab" :> <<"a", "b">>)

Chars(str) == IF str \in DOMAIN StrChars THEN StrChars[str] ELSE <<str>>

(* Python: sub in str, for two strings. *)
Contains(sub, str) ==
  LET x == Chars(sub)
      y == Chars(str)
  IN \E o \in 0..(Len(y) - Len(x)) : SubSeq(y, o + 1, o + Len(x)) = x

(* The order in which the keys of an object are written and iterated. *)
KeySeq == <<"DATA", "ERRORARRAY", "ACTION", "ERRORCODE", "ERRORMESSAGE">>

KeysOf(f) == SelectSeq(KeySeq, LAMBDA name : name \in DOMAIN f)

(***************************************************************************)
(* Tokens of a body's text.                                                *)
(***************************************************************************)
Tok(t) == [t |-> t, s |-> "", n |-> 0]
TokStr(x) == [t |-> "str", s |-> x, n |-> 0]
TokNum(x) == [t |-> "num", s |-> "", n |-> x]

RECURSIVE Dumps(_)
RECURSIVE DumpElems(_, _)
RECURSIVE DumpMembers(_, _, _)

DumpElems(q, j) ==
  IF j > Len(q) THEN <<>>
  ELSE (IF j > 1 THEN <<Tok(",")>> ELSE <<>>) \o Dumps(q[j]) \o DumpElems(q, j + 1)

DumpMembers(f, ks, j) ==
  IF j > Len(ks) THEN <<>>
  ELSE (IF j > 1 THEN <<Tok(",")>> ELSE <<>>)
       \o <<TokStr(ks[j]), Tok(":")>> \o Dumps(f[ks[j]])
       \o DumpMembers(f, ks, j + 1)

(* The text of a JSON value. *)
Dumps(v) ==
  CASE v.k = "null" -> <<Tok("null")>>
    [] v.k = "int" -> <<TokNum(v.n)>>
    [] v.k = "str" -> <<TokStr(v.s)>>
    [] v.k = "list" -> <<Tok("[")>> \o DumpElems(v.a, 1) \o <<Tok("]")>>
    [] v.k = "dict" -> <<Tok("{")>> \o DumpMembers(v.d, KeysOf(v.d), 1) \o <<Tok("}")>>

ParseFail == [ok |-> FALSE, v |-> JNull, next |-> 0]
ParseOk(v, next) == [ok |-> TRUE, v |-> v, next |-> next]

RECURSIVE ParseValue(_, _)
RECURSIVE ParseElems(_, _, _)
RECURSIVE ParseMembers(_, _, _)

ParseElems(t, j, acc) ==
  LET r == ParseValue(t, j)
  IN IF ~r.ok \/ r.next > Len(t) THEN ParseFail
     ELSE IF t[r.next].t = "," THEN ParseElems(t, r.next + 1, Append(acc, r.v))
     ELSE IF t[r.next].t = "]" THEN ParseOk(JList(Append(acc, r.v)), r.next + 1)
     ELSE ParseFail

(* A later member of the same name replaces an earlier one. *)
ParseMembers(t, j, acc) ==
  IF j + 1 > Len(t) \/ t[j].t # "str" \/ t[j + 1].t # ":" THEN ParseFail
  ELSE LET r == ParseValue(t, j + 2)
           f == (t[j].s :> r.v) @@ acc
       IN IF ~r.ok \/ r.next > Len(t) THEN ParseFail
          ELSE IF t[r.next].t = "," THEN ParseMembers(t, r.next + 1, f)
          ELSE IF t[r.next].t = "}" THEN ParseOk(JDict(f), r.next + 1)
          ELSE ParseFail

ParseValue(t, j) ==
  IF j > Len(t) THEN ParseFail
  ELSE CASE t[j].t = "null" -> ParseOk(JNull, j + 1)
         [] t[j].t = "num" -> ParseOk(JInt(t[j].n), j + 1)
         [] t[j].t = "str" -> ParseOk(JStr(t[j].s), j + 1)
         [] t[j].t = "[" ->
              IF j + 1 <= Len(t) /\ t[j + 1].t = "]"
              THEN ParseOk(JList(<<>>), j + 2)
              ELSE ParseElems(t, j + 1, <<>>)
         [] t[j].t = "{" ->
              IF j + 1 <= Len(t) /\ t[j + 1].t = "}"
              THEN ParseOk(JDict(<<>>), j + 2)
              ELSE ParseMembers(t, j + 1, <<>>)
         [] OTHER -> ParseFail

(* json.loads: the decoded value, or a rejection. *)
loads(t) ==
  LET r == ParseValue(t, 1)
  IN IF r.ok /\ r.next = Len(t) + 1 THEN [ok |-> TRUE, v |-> r.v]
     ELSE [ok |-> FALSE, v |-> JNull]

(***************************************************************************)
(* Python's operations on a decoded value.                                 *)
(***************************************************************************)
(* name in obj: "T", "F", or "E" when obj supports no membership test. *)
PyIn(name, obj) ==
  CASE obj.k = "dict" -> IF name \in DOMAIN obj.d THEN "T" ELSE "F"
    [] obj.k = "list" ->
         IF \E j \in 1..Len(obj.a) : obj.a[j].k = "str" /\ obj.a[j].s = name
         THEN "T" ELSE "F"
    [] obj.k = "str" -> IF Contains(name, obj.s) THEN "T" ELSE "F"
    [] OTHER -> "E"

(* obj[name]: only an object that has the key answers. *)
PyGetItem(obj, name) ==
  IF obj.k = "dict" /\ name \in DOMAIN obj.d
  THEN [ok |-> TRUE, v |-> obj.d[name]]
  ELSE [ok |-> FALSE, v |-> JNull]

(* iter(obj): a list's elements, a string's characters, an object's keys. *)
PyIter(obj) ==
  CASE obj.k = "list" -> [ok |-> TRUE, v |-> obj.a]
    [] obj.k = "str" ->
         [ok |-> TRUE,
          v |-> [j \in 1..Len(Chars(obj.s)) |-> JStr(Chars(obj.s)[j])]]
    [] obj.k = "dict" ->
         [ok |-> TRUE,
          v |-> [j \in 1..Len(KeysOf(obj.d)) |-> JStr(KeysOf(obj.d)[j])]]
    [] OTHER -> [ok |-> FALSE, v |-> <<>>]

(***************************************************************************)
(* Exceptions, and the values an error list can hold.                      *)
(***************************************************************************)
Exc(kind, code, message, b) ==
  [kind |-> kind, code |-> code, message |-> message, body |-> b]

NotRaised == Exc("-", JNull, JNull, <<>>)
PyNone == Exc("NoneType", JNull, JNull, <<>>)
LinodeException(code, message) == Exc("LinodeException", code, message, <<>>)
InvalidCredsError(value) == Exc("InvalidCredsError", JNull, value, <<>>)
MalformedResponseError(value, b) ==
  Exc("MalformedResponseError", JNull, JStr(value), b)
TypeError == Exc("TypeError", JNull, JNull, <<>>)

(* self.invalid *)
invalid == LinodeException(JInt(InvalidCode), JStr("Invalid JSON received from server"))

(* _make_excp taking every code from 4 up for the credentials error. *)
_make_excp_FromCode4(error) ==
  LET code == PyGetItem(error, "ERRORCODE")
      msg == PyGetItem(error, "ERRORMESSAGE")
  IN IF PyIn("ERRORCODE", error) = "E" \/ PyIn("ERRORMESSAGE", error) = "E"
     THEN [ok |-> FALSE, v |-> PyNone]
     ELSE IF PyIn("ERRORCODE", error) = "F" \/ PyIn("ERRORMESSAGE", error) = "F"
     THEN [ok |-> TRUE, v |-> PyNone]
     ELSE IF ~code.ok \/ ~msg.ok THEN [ok |-> FALSE, v |-> PyNone]
     ELSE IF code.v.k = "int" /\ code.v.n >= CredsCode
     THEN [ok |-> TRUE, v |-> InvalidCredsError(msg.v)]
     ELSE [ok |-> TRUE, v |-> LinodeException(code.v, msg.v)]

(***************************************************************************)
(* LinodeResponse._make_excp(error): the value returned, or ok = FALSE     *)
(* when a membership test or a lookup on the entry raises.                 *)
(***************************************************************************)
_make_excp(error) ==
  LET hasCode == PyIn("ERRORCODE", error)
      hasMsg == PyIn("ERRORMESSAGE", error)
      code == PyGetItem(error, "ERRORCODE")
      msg == PyGetItem(error, "ERRORMESSAGE")
  IN IF hasCode = "E" THEN [ok |-> FALSE, v |-> PyNone]
     ELSE IF hasCode = "F" THEN [ok |-> TRUE, v |-> PyNone]
     ELSE IF hasMsg = "E" THEN [ok |-> FALSE, v |-> PyNone]
     ELSE IF hasMsg = "F" THEN [ok |-> TRUE, v |-> PyNone]
     ELSE IF ~code.ok THEN [ok |-> FALSE, v |-> PyNone]
     ELSE IF code.v.k = "int" /\ code.v.n = CredsCode
          THEN IF msg.ok THEN [ok |-> TRUE, v |-> InvalidCredsError(msg.v)]
               ELSE [ok |-> FALSE, v |-> PyNone]
     ELSE IF msg.ok THEN [ok |-> TRUE, v |-> LinodeException(code.v, msg.v)]
     ELSE [ok |-> FALSE, v |-> PyNone]

(***************************************************************************)
(* errs.extend(self._make_excp(e) for e in entries): every conversion is   *)
(* appended as it is produced, up to the first one that raises.            *)
(***************************************************************************)
ExtendErrs(es, entries) ==
  LET bad == {j \in 1..Len(entries) : ~_make_excp(entries[j]).ok}
      n == IF bad = {} THEN Len(entries)
           ELSE (CHOOSE j \in bad : \A l \in bad : j <= l) - 1
  IN [exc |-> bad # {},
      errs |-> es \o [j \in 1..n |-> _make_excp(entries[j]).v]]

(* "DATA" not in obj or "ERRORARRAY" not in obj or "ACTION" not in obj *)
Lacks(obj) ==
  LET c1 == PyIn("DATA", obj)
      c2 == PyIn("ERRORARRAY", obj)
      c3 == PyIn("ACTION", obj)
  IN IF c1 # "T" THEN c1
     ELSE IF c2 # "T" THEN c2
     ELSE c3

(* The loop body without the sentinel for an item that lacks a key. *)
LoopBody_NoSentinel(obj, r, es) ==
  LET lacks == Lacks(obj)
      data == PyGetItem(obj, "DATA")
      arr == PyGetItem(obj, "ERRORARRAY")
      it == PyIter(arr.v)
      ext == ExtendErrs(es, it.v)
  IN IF lacks = "E" THEN [exc |-> TRUE, ret |-> r, errs |-> es]
     ELSE IF lacks = "F"
          THEN [exc |-> FALSE, ret |-> Append(r, JNull), errs |-> es]
     ELSE IF ~data.ok THEN [exc |-> TRUE, ret |-> r, errs |-> es]
     ELSE IF ~arr.ok \/ ~it.ok
          THEN [exc |-> TRUE, ret |-> Append(r, data.v), errs |-> es]
     ELSE [exc |-> ext.exc, ret |-> Append(r, data.v), errs |-> ext.errs]

(***************************************************************************)
(* One pass of the body of the for loop of parse_body over obj: the lists  *)
(* as the pass leaves them, and whether it raised.                         *)
(***************************************************************************)
LoopBody(obj, r, es) ==
  LET lacks == Lacks(obj)
      data == PyGetItem(obj, "DATA")
      arr == PyGetItem(obj, "ERRORARRAY")
      it == PyIter(arr.v)
      ext == ExtendErrs(es, it.v)
  IN IF lacks = "E" THEN [exc |-> TRUE, ret |-> r, errs |-> es]
     ELSE IF lacks = "F"
          THEN [exc |-> FALSE, ret |-> Append(r, JNull), errs |-> Append(es, invalid)]
     ELSE IF ~data.ok THEN [exc |-> TRUE, ret |-> r, errs |-> es]
     ELSE IF ~arr.ok \/ ~it.ok
          THEN [exc |-> TRUE, ret |-> Append(r, data.v), errs |-> es]
     ELSE [exc |-> ext.exc, ret |-> Append(r, data.v), errs |-> ext.errs]

(***************************************************************************)
(* The bodies a response is drawn from.                                    *)
(***************************************************************************)
Entry(code, message) == JDict(("ERRORCODE" :> code) @@ ("ERRORMESSAGE" :> message))
E4 == Entry(JInt(CredsCode), JStr("m"))
E5 == Entry(JInt(CredsCode + 1), JStr("n"))
ENoCode == JDict("ERRORMESSAGE" :> JStr("m"))
ENoMsg == JDict("ERRORCODE" :> JInt(CredsCode))
EInt == JInt(CredsCode)
EStr == JStr("ERRORCODE")
EList == JList(<<JStr("ERRORCODE"), JStr("ERRORMESSAGE")>>)

Entries == {E4, E5, ENoCode, ENoMsg}

Item(data, arr) ==
  JDict(("DATA" :> data) @@ ("ERRORARRAY" :> arr) @@ ("ACTION" :> JStr("x")))

(* The items without an entry of Entries that bodies of several items mix. *)
CoreItems ==
  { Item(JList(<<JInt(1), JInt(2)>>), JList(<<>>)),
    Item(JInt(1), JInt(0)),
    JDict(<<>>),
    JDict(("ERRORARRAY" :> JList(<<E5>>)) @@ ("ACTION" :> JStr("x"))),
    JInt(1) }

(* Items that come alone, as a solitary value or the one item of a list. *)
OddItems ==
  { Item(JNull, JList(<<>>)),
    Item(JInt(1), JList(<<EInt>>)),
    Item(JInt(1), JList(<<E5, EInt, E4>>)),
    Item(JInt(1), JList(<<EStr>>)),
    Item(JInt(1), JList(<<EList>>)),
    Item(JInt(1), JList(<<E5, EList>>)),
    Item(JInt(1), JStr("ab")),
    Item(JInt(1), ENoMsg),
    JDict(("DATA" :> JInt(1)) @@ ("ACTION" :> JStr("x"))),
    JDict(("DATA" :> JInt(1)) @@ ("ERRORARRAY" :> JList(<<E4>>))),
    JNull,
    JStr("ab"),
    JStr("DATA,ERRORARRAY,ACTION"),
    JList(<<JStr("DATA"), JStr("ERRORARRAY"), JStr("ACTION")>>) }

(* The items whose ERRORARRAY is a list of c entries of Entries. *)
ItemsOf(c) ==
  IF c = 0 THEN CoreItems
  ELSE {Item(JNull, JList(q)) : q \in [1..c -> Entries]}

RECURSIVE ItemSeqs(_, _)
(* The sequences of at most n items with at most e entries in all. *)
ItemSeqs(n, e) ==
  IF n = 0 THEN {<<>>}
  ELSE {<<>>} \cup
       UNION {{<<it>> \o rest : it \in ItemsOf(c), rest \in ItemSeqs(n - 1, e - c)} :
              c \in 0..e}

Values ==
  {JList(q) : q \in ItemSeqs(MaxItems, MaxErrs)}
  \cup UNION {ItemsOf(c) : c \in 0..MaxErrs}
  \cup OddItems
  \cup {JList(<<it>>) : it \in OddItems}

(* Texts the decoder rejects, and a text that names DATA twice. *)
Sample == Dumps(Item(JNull, JList(<<E4>>)))
BadBodies ==
  {SubSeq(Sample, 1, n) : n \in 0..(Len(Sample) - 1)}
  \cup {Sample \o <<Tok("}")>>, <<Tok("not"), Tok("json")>>,
        <<Tok("["), TokNum(1), Tok(","), Tok("]")>>,
        <<Tok("{"), TokNum(1), Tok(":"), TokNum(1), Tok("}")>>}
TwiceData ==
  <<Tok("{"), TokStr("DATA"), Tok(":"), TokNum(1), Tok(","),
    TokStr("DATA"), Tok(":"), TokNum(2), Tok(","),
    TokStr("ERRORARRAY"), Tok(":"), Tok("["), Tok("]"), Tok(","),
    TokStr("ACTION"), Tok(":"), TokStr("x"), Tok("}")>>

Bodies == {Dumps(v) : v \in Values} \cup BadBodies \cup {TwiceData}

(***************************************************************************)
(* LinodeResponse: the constructor, from the call of parse_body on.        *)
(***************************************************************************)
Init ==
  /\ body \in Bodies
  /\ pc = "start"
  /\ js = Unset
  /\ ret = <<>>
  /\ errs = <<>>
  /\ i = 0
  /\ objects = Unset
  /\ errors = Unset
  /\ raised = NotRaised
  /\ params = <<>>
  /\ key = ""
  /\ returned = <<>>
  /\ calls = 0

(* Loads handing a rejected body to the except clause of the extract step. *)
Loads_SentinelOnReject ==
  /\ pc = "start"
  /\ IF loads(body).ok
     THEN /\ js' = loads(body).v
          /\ pc' = "normalize"
     ELSE /\ pc' = "except"
          /\ js' = js
  /\ UNCHANGED <<body, ret, errs, i, objects, errors, raised>>
  /\ UNCHANGED connVars

(* js = json.loads(self.body), or MalformedResponseError. *)
Loads ==
  /\ pc = "start"
  /\ IF loads(body).ok
     THEN /\ js' = loads(body).v
          /\ pc' = "normalize"
          /\ raised' = raised
     ELSE /\ raised' = MalformedResponseError("Failed to parse JSON", body)
          /\ pc' = "raised"
          /\ js' = js
  /\ UNCHANGED <<body, ret, errs, i, objects, errors>>
  /\ UNCHANGED connVars

(* Normalize without the promotion of a solitary object. *)
Normalize_NoPromotion ==
  /\ pc = "normalize"
  /\ js' = js
  /\ ret' = <<>>
  /\ errs' = <<>>
  /\ IF PyIter(js').ok
     THEN pc' = "loop" /\ i' = 1
     ELSE pc' = "except" /\ i' = i
  /\ UNCHANGED <<body, objects, errors, raised>>
  /\ UNCHANGED connVars

(* The promotion of a solitary object, the two empty lists, iter(js). *)
Normalize ==
  /\ pc = "normalize"
  /\ js' = IF js.k = "dict" THEN JList(<<js>>) ELSE js
  /\ ret' = <<>>
  /\ errs' = <<>>
  /\ IF PyIter(js').ok
     THEN pc' = "loop" /\ i' = 1
     ELSE pc' = "except" /\ i' = i
  /\ UNCHANGED <<body, objects, errors, raised>>
  /\ UNCHANGED connVars

(* One item of the for loop. *)
LoopItem ==
  /\ pc = "loop"
  /\ i <= Len(PyIter(js).v)
  /\ LET out == LoopBody(PyIter(js).v[i], ret, errs)
     IN /\ ret' = out.ret
        /\ errs' = out.errs
        /\ IF out.exc
           THEN pc' = "except" /\ i' = i
           ELSE pc' = "loop" /\ i' = i + 1
  /\ UNCHANGED <<body, js, objects, errors, raised>>
  /\ UNCHANGED connVars

(* return (ret, errs), assigned to self.objects, self.errors. *)
LoopEnd ==
  /\ pc = "loop"
  /\ i > Len(PyIter(js).v)
  /\ objects' = JList(ret)
  /\ errors' = JList(errs)
  /\ pc' = "parsed"
  /\ UNCHANGED <<body, js, ret, errs, i, raised>>
  /\ UNCHANGED connVars

(* The except clause keeping what the loop had collected. *)
Except_KeepsPartial ==
  /\ pc = "except"
  /\ objects' = JList(ret)
  /\ errors' = JList(Append(errs, invalid))
  /\ pc' = "parsed"
  /\ UNCHANGED <<body, js, ret, errs, i, raised>>
  /\ UNCHANGED connVars

(* except: return (None, [self.invalid]) *)
Except ==
  /\ pc = "except"
  /\ objects' = JNull
  /\ errors' = JList(<<invalid>>)
  /\ pc' = "parsed"
  /\ UNCHANGED <<body, js, ret, errs, i, raised>>
  /\ UNCHANGED connVars

(* LinodeResponse.success *)
success == Len(errors.a) = 0

(* raise exc: only an exception can be raised. *)
Raise(exc) == IF exc.kind = "NoneType" THEN TypeError ELSE exc

(* if not self.success(): raise self.errors[0] *)
CheckSuccess ==
  /\ pc = "parsed"
  /\ IF success
     THEN pc' = "done" /\ raised' = raised
     ELSE pc' = "raised" /\ raised' = Raise(errors.a[1])
  /\ UNCHANGED <<body, js, ret, errs, i, objects, errors>>
  /\ UNCHANGED connVars

Next == Loads \/ Normalize \/ LoopItem \/ LoopEnd \/ Except \/ CheckSuccess

Spec == Init /\ [][Next]_vars

(* add_default_params leaving a key the caller already set. *)
add_default_params_KeepsOld(p, k) ==
  [name \in DOMAIN p \cup {"api_key", "api_responseFormat"} |->
     IF name \in DOMAIN p THEN p[name]
     ELSE IF name = "api_key" THEN k
     ELSE "json"]

(***************************************************************************)
(* LinodeConnection.add_default_params: the mapping after the two          *)
(* assignments.                                                            *)
(***************************************************************************)
add_default_params(p, k) ==
  [name \in DOMAIN p \cup {"api_key", "api_responseFormat"} |->
     IF name = "api_key" THEN k
     ELSE IF name = "api_responseFormat" THEN "json"
     ELSE p[name]]

ParamNames == {"foo", "api_key", "api_responseFormat"}
ParamValues == {"bar", "K", "L", "json", "xml"}
KeyValues == {"K", "L"}

(* A connection with a key and a caller's parameters; no response yet. *)
InitConn ==
  /\ params \in UNION {[S -> ParamValues] : S \in SUBSET ParamNames}
  /\ key \in KeyValues
  /\ returned = <<>>
  /\ calls = 0
  /\ body = <<>>
  /\ pc = "idle"
  /\ js = Unset
  /\ ret = <<>>
  /\ errs = <<>>
  /\ i = 0
  /\ objects = Unset
  /\ errors = Unset
  /\ raised = NotRaised

(* A call of add_default_params(params): params is changed in place and   *)
(* is the value returned.                                                  *)
AddDefaultParams ==
  /\ calls < MaxCalls
  /\ params' = add_default_params(params, key)
  /\ returned' = params'
  /\ calls' = calls + 1
  /\ UNCHANGED key
  /\ UNCHANGED respVars

NextConn == AddDefaultParams

SpecConn == InitConn /\ [][NextConn]_vars

(***************************************************************************)
(* Properties.                                                             *)
(***************************************************************************)
(* self.objects and self.errors have been assigned. *)
Assigned == objects.k # "unset"
(* parse_body returned the two lists of its loop. *)
NoFallback == objects.k = "list"
(* The items the loop runs over, once js has been promoted. *)
ItemsOfJs == PyIter(js).v

(* An ERRORARRAY entry with both keys. *)
Complete(e) == e.k = "dict" /\ {"ERRORCODE", "ERRORMESSAGE"} \subseteq DOMAIN e.d
(* An item with the three keys. *)
WellFormed(obj) == obj.k = "dict" /\ {"DATA", "ERRORARRAY", "ACTION"} \subseteq DOMAIN obj.d
(* An item the key test finds lacking. *)
Malformed(obj) == Lacks(obj) = "F"
(* The entries of a well-formed item. *)
EntriesOf(obj) == PyIter(obj.d["ERRORARRAY"]).v

(* The error the specification gives a complete entry. *)
Converted(e) ==
  IF e.d["ERRORCODE"] = JInt(CredsCode)
  THEN InvalidCredsError(e.d["ERRORMESSAGE"])
  ELSE LinodeException(e.d["ERRORCODE"], e.d["ERRORMESSAGE"])

(* The complete entries of the well-formed items, by position. *)
CompleteEntries(items) ==
  UNION {{<<j, l>> : l \in {m \in 1..Len(EntriesOf(items[j])) :
                              Complete(EntriesOf(items[j])[m])}} :
         j \in {m \in 1..Len(items) : WellFormed(items[m])}}
MalformedItems(items) == {j \in 1..Len(items) : Malformed(items[j])}

(* Every ERRORARRAY of a well-formed item is a list of objects. *)
EntriesAreObjects(items) ==
  \A j \in 1..Len(items) :
    WellFormed(items[j]) =>
      /\ items[j].d["ERRORARRAY"].k = "list"
      /\ \A l \in 1..Len(EntriesOf(items[j])) : EntriesOf(items[j])[l].k = "dict"

(* C1: an ERRORARRAY entry that lacks ERRORCODE or ERRORMESSAGE produces   *)
(* no entry of errors: after a parse that did not fall back, errors holds  *)
(* exactly one error per complete entry and per malformed item, and a body *)
(* whose entries are all incomplete has no errors and succeeds.            *)
C1_IncompleteEntryDropped ==
  (Assigned /\ NoFallback /\ EntriesAreObjects(ItemsOfJs)) =>
    /\ \A j \in 1..Len(errors.a) : errors.a[j].kind # "NoneType"
    /\ Len(errors.a) = Cardinality(MalformedItems(ItemsOfJs))
                       + Cardinality(CompleteEntries(ItemsOfJs))
    /\ (CompleteEntries(ItemsOfJs) = {} /\ MalformedItems(ItemsOfJs) = {}) =>
         (errors.a = <<>> /\ success)

(* C2: the constructor completes or raises a LinodeException, an           *)
(* InvalidCredsError or a MalformedResponseError, and nothing else.        *)
C2_OnlyThreeKindsEscape ==
  /\ (pc = "raised") =>
       raised.kind \in {"LinodeException", "InvalidCredsError", "MalformedResponseError"}
  /\ (pc = "done") => (raised = NotRaised /\ Assigned)

(* C3: after decode and extract the constructor completes exactly when     *)
(* errors is empty, and otherwise raises the first element of errors.      *)
C3_RaisesFirstError ==
  /\ (pc = "done") => (Assigned /\ Len(errors.a) = 0)
  /\ (pc = "raised" /\ Assigned) =>
       (Len(errors.a) > 0 /\ raised = errors.a[1])

(* C4: a body that decodes to one object with DATA, ERRORARRAY and ACTION  *)
(* and an empty ERRORARRAY never raises; objects is [DATA], errors is      *)
(* empty and success() is true.                                            *)
C4_SolitaryEnvelope ==
  LET r == loads(body)
  IN (r.ok /\ WellFormed(r.v) /\ r.v.d["ERRORARRAY"] = JList(<<>>)) =>
       /\ pc # "raised" /\ raised = NotRaised
       /\ Assigned =>
            /\ objects = JList(<<r.v.d["DATA"]>>)
            /\ errors = JList(<<>>)
            /\ success

C4_Witness ==
  /\ pc = "done"
  /\ loads(body).v.k = "dict"
  /\ objects = JList(<<JList(<<JInt(1), JInt(2)>>)>>)

Sentinels(es) == Cardinality({j \in 1..Len(es) : es[j] = invalid})
(* The number of other errors of es. *)
ApiErrors(es) ==
  Cardinality({j \in 1..Len(es) :
     es[j] # invalid /\ es[j].kind \in {"LinodeException", "InvalidCredsError"}})

(* What C6 says of a finished parse of a body of several items. *)
C6_Contributions ==
  /\ objects.k = "list"
  /\ Len(objects.a) = Len(ItemsOfJs)
  /\ \A j \in MalformedItems(ItemsOfJs) : objects.a[j] = JNull
  /\ \A j \in 1..Len(ItemsOfJs) :
       WellFormed(ItemsOfJs[j]) => objects.a[j] = ItemsOfJs[j].d["DATA"]
  /\ Sentinels(errors.a) = Cardinality(MalformedItems(ItemsOfJs))
  /\ ApiErrors(errors.a) = Cardinality(CompleteEntries(ItemsOfJs))

(* C6 as stated: in a body of several items every item that lacks a key    *)
(* gives one null to objects and one sentinel to errors, nothing from its  *)
(* ERRORARRAY, and the items after it give their own object and errors.    *)
C6_Original ==
  (Assigned /\ js.k = "list" /\ Len(js.a) >= 2 /\ MalformedItems(js.a) # {}) =>
    C6_Contributions

(* C6, amended: the same, provided the extract step did not take the       *)
(* fallback path.                                                          *)
C6_MalformedItem ==
  (Assigned /\ NoFallback /\ js.k = "list" /\ Len(js.a) >= 2
     /\ MalformedItems(js.a) # {}) =>
    C6_Contributions

C6_Witness ==
  /\ Assigned /\ NoFallback /\ js.k = "list" /\ Len(js.a) = 2
  /\ js.a[1].k = "dict" /\ Malformed(js.a[1]) /\ "ERRORARRAY" \in DOMAIN js.a[1].d
  /\ WellFormed(js.a[2])
  /\ Len(errors.a) = 2 /\ errors.a[1] = invalid /\ errors.a[2].kind = "InvalidCredsError"

(* The number of slots of errors an item fills. *)
Slots(obj) == IF Malformed(obj) THEN 1 ELSE Len(EntriesOf(obj))
RECURSIVE SlotsBefore(_, _)
SlotsBefore(items, j) ==
  IF j <= 1 THEN 0 ELSE SlotsBefore(items, j - 1) + Slots(items[j - 1])

(* C7: a complete entry is converted to InvalidCredsError carrying its     *)
(* ERRORMESSAGE when ERRORCODE is 4, and otherwise to a LinodeException of *)
(* its ERRORCODE and ERRORMESSAGE.                                         *)
C7_Conversion ==
  (Assigned /\ NoFallback) =>
    \A p \in CompleteEntries(ItemsOfJs) :
      LET e == EntriesOf(ItemsOfJs[p[1]])[p[2]]
          x == errors.a[SlotsBefore(ItemsOfJs, p[1]) + p[2]]
      IN /\ x = Converted(e)
         /\ (x.kind = "InvalidCredsError") <=> (e.d["ERRORCODE"] = JInt(CredsCode))
         /\ (x.kind = "LinodeException") =>
              (x.code = e.d["ERRORCODE"] /\ x.message = e.d["ERRORMESSAGE"])
         /\ (x.kind = "InvalidCredsError") => x.message = e.d["ERRORMESSAGE"]

C7_Witness ==
  /\ Assigned /\ NoFallback
  /\ Len(errors.a) = 2
  /\ errors.a[1] = LinodeException(JInt(CredsCode + 1), JStr("n"))
  /\ errors.a[2] = InvalidCredsError(JStr("m"))

(* C8: add_default_params returns the mapping it was given, with api_key   *)
(* the held key and api_responseFormat "json", every other key as it was;  *)
(* a second call changes nothing.                                          *)
C8_DefaultParams ==
  [][ (calls' = calls + 1) =>
        /\ returned' = params'
        /\ DOMAIN params' = DOMAIN params \cup {"api_key", "api_responseFormat"}
        /\ params'["api_key"] = key
        /\ params'["api_responseFormat"] = "json"
        /\ \A name \in DOMAIN params \ {"api_key", "api_responseFormat"} :
             params'[name] = params[name]
        /\ (calls >= 1) => (params' = params) ]_vars

C8_Witness ==
  /\ calls = 2
  /\ returned = params
  /\ params = (("foo" :> "bar") @@ ("api_key" :> "L") @@ ("api_responseFormat" :> "json"))

(* An entry whose conversion raises. *)
EntryRaises(e) ==
  \/ e.k \notin {"dict", "list", "str"}
  \/ (e.k # "dict" /\ PyIn("ERRORCODE", e) = "T" /\ PyIn("ERRORMESSAGE", e) = "T")
(* An item at which the loop raises. *)
ItemRaises(obj) ==
  \/ obj.k \notin {"dict", "list", "str"}
  \/ (obj.k # "dict" /\ Lacks(obj) = "T")
  \/ /\ WellFormed(obj)
     /\ \/ ~PyIter(obj.d["ERRORARRAY"]).ok
        \/ \E l \in 1..Len(EntriesOf(obj)) : EntryRaises(EntriesOf(obj)[l])

(* C9: when the body decodes and the extract step hits an unexpected error *)
(* parse_body does not raise; it returns None and [sentinel], whatever the *)
(* loop had collected.                                                     *)
C9_Fallback ==
  /\ (pc = "parsed") => raised = NotRaised
  /\ (Assigned /\ (~PyIter(js).ok \/ \E j \in 1..Len(ItemsOfJs) : ItemRaises(ItemsOfJs[j]))) =>
       (objects = JNull /\ errors = JList(<<invalid>>))

C9_Witness ==
  /\ pc = "parsed"
  /\ objects = JNull
  /\ errors = JList(<<invalid>>)
  /\ Len(ret) = 2
  /\ Len(errs) > 0

(* The objects and errors C10 describes. *)
RECURSIVE SpecErrors(_, _)
SpecErrors(items, j) ==
  IF j > Len(items) THEN <<>>
  ELSE (IF Malformed(items[j]) THEN <<invalid>>
        ELSE LET es == SelectSeq(EntriesOf(items[j]), Complete)
             IN [l \in 1..Len(es) |-> Converted(es[l])])
       \o SpecErrors(items, j + 1)
SpecObjects(items) ==
  [j \in 1..Len(items) |->
     IF Malformed(items[j]) THEN JNull ELSE items[j].d["DATA"]]

(* C10: a parse that did not fall back leaves one slot of objects per item *)
(* and, in errors, each item's errors in item order: the sentinel of a     *)
(* malformed item, the converted entries of a well-formed one.             *)
C10_OneSlotPerItem ==
  (Assigned /\ NoFallback /\ EntriesAreObjects(ItemsOfJs)) =>
    /\ objects.a = SpecObjects(ItemsOfJs)
    /\ errors.a = SpecErrors(ItemsOfJs, 1)

====
